---- MODULE Spec2Model ----
(***************************************************************************)
(* Genetic search for a weekly class timetable (src/genetic_algorithm.py). *)
(*                                                                         *)
(* A Session is a Python dict held by reference: Candidates are lists of   *)
(* references into a store of Session records (heap), so that the sharing  *)
(* of Session records between parents and children is part of the model.   *)
(* The run of algoritmo_genetico is a state machine over a record of its   *)
(* local variables; every operation is an operator from record to record,  *)
(* and the actions apply it.  Two runs advance in lockstep on the same     *)
(* random draws: exec, whose observer answers anything, and ref, whose     *)
(* observer always returns None.                                           *)
(*                                                                         *)
(* Random draws are nondeterministic choices over the drawn range.  A run  *)
(* may take any option on at most `orcamento` of its draws and takes the   *)
(* first option of the range on the others: every state of the model is a  *)
(* state the program reaches with positive probability.                    *)
(***************************************************************************)
EXTENDS Integers, Sequences, FiniteSets, TLC

\* ------------------------------------------------------------------ bounds
\* Largest populationSize / generationCount of the runs of Spec.
MaxPopulacao == 3
MaxGeracoes == 2
\* Days a draw may return: the first MaxDias entries of DIAS.
MaxDias == 2
\* Draws of one run (random draws and observer answers) that may take an
\* option other than the first one.
MaxDesvios == 2
\* The runs of SpecElite: populationSize up to MaxPopulacaoElite.
MaxPopulacaoElite == 11
MaxDesviosElite == 1
\* The calls of SpecFuncoes: Candidates of up to MaxAulas Sessions, up to
\* MaxListas of them, built and drawn with up to MaxDesviosFuncoes choices
\* other than the first.
MaxAulas == 6
MaxListas == 2
MaxDesviosFuncoes == 1

\* ---------------------------------------------------------------- helpers
Min(a, b) == IF a < b THEN a ELSE b
Max(a, b) == IF a > b THEN a ELSE b

\* Python's None and a present value, for variables that hold either.
None == << >>
Some(x) == << x >>

\* ------------------------------------------------------- problem data
DISCIPLINAS ==
  << [nome |-> "Calculo I", tipo |-> "teorica", professor |-> "Ana",
      sala_requerida |-> "Sala 101", preferencia |-> "manha"],
     [nome |-> "Algoritmos e Programacao", tipo |-> "laboratorio", professor |-> "Alice",
      sala_requerida |-> "Lab. Software", preferencia |-> "tarde"],
     [nome |-> "Circuitos Digitais", tipo |-> "laboratorio", professor |-> "Carlos",
      sala_requerida |-> "Lab. Hardware", preferencia |-> "tarde"],
     [nome |-> "Inteligencia Artificial", tipo |-> "teorica", professor |-> "Bruno",
      sala_requerida |-> "Sala 102", preferencia |-> "qualquer"],
     [nome |-> "Sistemas Operacionais", tipo |-> "laboratorio", professor |-> "Bruno",
      sala_requerida |-> "Lab. Software", preferencia |-> "manha"] >>

SALAS == << "Sala 101", "Sala 102", "Lab. Software", "Lab. Hardware" >>
DIAS == << "Segunda", "Terca", "Quarta", "Quinta", "Sexta" >>
HORARIOS_MANHA == << "08:00-10:00", "10:00-12:00" >>
HORARIOS_TARDE == << "13:30-15:30", "15:30-17:30" >>

\* The list a slot is drawn from, by preference (the if/elif/else of
\* gerar_individuo and of mutacao).  The slots carry no surrounding blanks,
\* so the strip() that follows the draw returns them as they are.
HorariosDe(preferencia) ==
  IF preferencia = "manha" THEN HORARIOS_MANHA
  ELSE IF preferencia = "tarde" THEN HORARIOS_TARDE
  ELSE HORARIOS_MANHA \o HORARIOS_TARDE

\* x in lista, for a Python list.
Pertence(x, lista) == \E k \in 1..Len(lista) : lista[k] = x

\* ------------------------------------------------------ gerar_individuo
\* dias[i] and horarios[i] are the indices random.choice returned for
\* course i.
\* A generator that draws every slot from the union of both lists.
gerar_individuo_qualquer_horario(heap, dias, horarios) ==
  LET aula(i) ==
        [disciplina  |-> DISCIPLINAS[i].nome,
         professor   |-> DISCIPLINAS[i].professor,
         sala        |-> DISCIPLINAS[i].sala_requerida,
         dia         |-> DIAS[dias[i]],
         horario     |-> (HORARIOS_MANHA \o HORARIOS_TARDE)[horarios[i]],
         tipo        |-> DISCIPLINAS[i].tipo,
         preferencia |-> DISCIPLINAS[i].preferencia]
      n == Len(DISCIPLINAS)
  IN [individuo |-> [i \in 1..n |-> Len(heap) + i],
      heap      |-> heap \o [i \in 1..n |-> aula(i)]]

\* gerar_individuo over the module constants it finds (catalogo.disciplinas,
\* .dias, .horarios_manha, .horarios_tarde).  The loop runs once per course;
\* random.choice of an empty list raises IndexError; with no course the loop
\* does not run and [] is returned.
HorariosDoCatalogo(catalogo, preferencia) ==
  IF preferencia = "manha" THEN catalogo.horarios_manha
  ELSE IF preferencia = "tarde" THEN catalogo.horarios_tarde
  ELSE catalogo.horarios_manha \o catalogo.horarios_tarde

gerar_individuo_com(catalogo, heap, dias, horarios) ==
  LET n == Len(catalogo.disciplinas)
      lista(i) == HorariosDoCatalogo(catalogo, catalogo.disciplinas[i].preferencia)
      levanta == \E i \in 1..n : lista(i) = << >> \/ catalogo.dias = << >>
      aula(i) ==
        [disciplina  |-> catalogo.disciplinas[i].nome,
         professor   |-> catalogo.disciplinas[i].professor,
         sala        |-> catalogo.disciplinas[i].sala_requerida,
         dia         |-> catalogo.dias[dias[i]],
         horario     |-> lista(i)[horarios[i]],
         tipo        |-> catalogo.disciplinas[i].tipo,
         preferencia |-> catalogo.disciplinas[i].preferencia]
  IN IF levanta THEN [levantou |-> TRUE, individuo |-> << >>, heap |-> heap]
     ELSE [levantou |-> FALSE,
           individuo |-> [i \in 1..n |-> Len(heap) + i],
           heap |-> heap \o [i \in 1..n |-> aula(i)]]

\* gerar_individuo with the built-in constants, which are not empty: one
\* Session per course, appended to the store.
gerar_individuo(heap, dias, horarios) ==
  LET r == gerar_individuo_com(
             [disciplinas |-> DISCIPLINAS, dias |-> DIAS,
              horarios_manha |-> HORARIOS_MANHA, horarios_tarde |-> HORARIOS_TARDE],
             heap, dias, horarios)
  IN [individuo |-> r.individuo, heap |-> r.heap]

\* ------------------------------------------------------ calcular_fitness
\* The Sessions a Candidate refers to.
Aulas(individuo, heap) == [i \in 1..Len(individuo) |-> heap[individuo[i]]]

\* A Session test that adds 50 when the preference is respected.
PenalidadeComBonus(aula1, i) ==
  (IF aula1.tipo = "laboratorio" /\ aula1.sala # DISCIPLINAS[i].sala_requerida
   THEN 300 ELSE 0)
  + (IF \/ aula1.preferencia = "manha" /\ ~Pertence(aula1.horario, HORARIOS_MANHA)
        \/ aula1.preferencia = "tarde" /\ ~Pertence(aula1.horario, HORARIOS_TARDE)
     THEN 50 ELSE -50)

\* A Session test that checks the room of a lab on "Segunda" only.
PenalidadeSalaNaSegunda(aula1, i) ==
  (IF aula1.tipo = "laboratorio" /\ aula1.dia = "Segunda"
      /\ aula1.sala # DISCIPLINAS[i].sala_requerida
   THEN 300 ELSE 0)
  + (IF \/ aula1.preferencia = "manha" /\ ~Pertence(aula1.horario, HORARIOS_MANHA)
        \/ aula1.preferencia = "tarde" /\ ~Pertence(aula1.horario, HORARIOS_TARDE)
     THEN 50 ELSE 0)

\* What the two tests after the inner loop subtract for aula1 at position i
\* (DISCIPLINAS[i] is read only when aula1 is a lab: `and` short-circuits).
PenalidadeDaAula(aula1, i) ==
  (IF aula1.tipo = "laboratorio" /\ aula1.sala # DISCIPLINAS[i].sala_requerida
   THEN 300 ELSE 0)
  + (IF \/ aula1.preferencia = "manha" /\ ~Pertence(aula1.horario, HORARIOS_MANHA)
        \/ aula1.preferencia = "tarde" /\ ~Pertence(aula1.horario, HORARIOS_TARDE)
     THEN 50 ELSE 0)

\* Pair tests without the 150 of the shared day and slot.
PenalidadeDoParSemHorario(aula1, aula2) ==
  (IF aula1.dia = aula2.dia /\ aula1.horario = aula2.horario
      /\ aula1.professor = aula2.professor THEN 200 ELSE 0)
  + (IF aula1.dia = aula2.dia /\ aula1.horario = aula2.horario
        /\ aula1.sala = aula2.sala THEN 200 ELSE 0)

\* What the three tests of the inner loop subtract for the pair.
PenalidadeDoPar(aula1, aula2) ==
  (IF aula1.dia = aula2.dia /\ aula1.horario = aula2.horario
      /\ aula1.professor = aula2.professor THEN 200 ELSE 0)
  + (IF aula1.dia = aula2.dia /\ aula1.horario = aula2.horario
        /\ aula1.sala = aula2.sala THEN 200 ELSE 0)
  + (IF aula1.dia = aula2.dia /\ aula1.horario = aula2.horario THEN 150 ELSE 0)

\* for aula2 in individuo[i+1:], from position j on.
RECURSIVE LacoInterno(_, _, _, _)
LacoInterno(a, i, j, pontos) ==
  IF j > Len(a) THEN pontos
  ELSE LacoInterno(a, i, j + 1, pontos - PenalidadeDoPar(a[i], a[j]))

\* An outer loop whose inner loop starts at aula1 itself (individuo[i:]).
RECURSIVE LacoExternoComProprio(_, _, _)
LacoExternoComProprio(a, i, pontos) ==
  IF i > Len(a) THEN pontos
  ELSE LacoExternoComProprio(a, i + 1,
                             LacoInterno(a, i, i, pontos) - PenalidadeDaAula(a[i], i))

\* for i, aula1 in enumerate(individuo), from position i on.
RECURSIVE LacoExterno(_, _, _)
LacoExterno(a, i, pontos) ==
  IF i > Len(a) THEN pontos
  ELSE LacoExterno(a, i + 1, LacoInterno(a, i, i + 1, pontos) - PenalidadeDaAula(a[i], i))

\* DISCIPLINAS[i] raises IndexError: a lab Session at a position the Catalog
\* does not have.
LevantaIndexError(individuo, heap) ==
  \E i \in 1..Len(individuo) :
    i > Len(DISCIPLINAS) /\ heap[individuo[i]].tipo = "laboratorio"

\* pontos = 1000, the loops, return pontos (when nothing was raised).
calcular_fitness(individuo, heap) == LacoExterno(Aulas(individuo, heap), 1, 1000)

\* ------------------------------------------------------------- crossover
\* A crossover that leaves out the Session at the cut
\* (pai1[:ponto_corte] + pai2[ponto_corte+1:]).
crossover_salta_um(pai1, pai2, ponto_corte) ==
  SubSeq(pai1, 1, Min(ponto_corte, Len(pai1)))
    \o SubSeq(pai2, Min(ponto_corte + 1, Len(pai2)) + 1, Len(pai2))

\* A crossover that takes the start of pai2 instead of its end
\* (pai1[:ponto_corte] + pai2[:len(pai2)-ponto_corte]).
crossover_desalinhado(pai1, pai2, ponto_corte) ==
  SubSeq(pai1, 1, Min(ponto_corte, Len(pai1)))
    \o SubSeq(pai2, 1, Len(pai2) - Min(ponto_corte, Len(pai2)))

\* pai1[:ponto_corte] + pai2[ponto_corte:] : a new list of the parents'
\* own Session records (a slice stops at the end of a shorter list).
crossover(pai1, pai2, ponto_corte) ==
  SubSeq(pai1, 1, Min(ponto_corte, Len(pai1)))
    \o SubSeq(pai2, Min(ponto_corte, Len(pai2)) + 1, Len(pai2))

\* --------------------------------------------------------------- mutacao
\* A mutation that draws the slot from the union of both lists whatever
\* the preference.
AulaMutadaQualquerHorario(aula, novo_dia, novo_horario) ==
  [aula EXCEPT !.dia = DIAS[novo_dia],
               !.horario = (HORARIOS_MANHA \o HORARIOS_TARDE)[novo_horario]]

\* The Session at aula_mutada with the drawn day and slot.
AulaMutada(aula, novo_dia, novo_horario) ==
  [aula EXCEPT !.dia = DIAS[novo_dia],
               !.horario = HorariosDe(aula.preferencia)[novo_horario]]

\* A mutation that writes the drawn day and slot into the Session record of
\* the input instead of a copy of it.
mutacao_no_lugar(individuo, heap, aula_mutada, novo_dia, novo_horario) ==
  IF individuo = << >> THEN [individuo |-> individuo, heap |-> heap]
  ELSE [individuo |-> individuo,
        heap |-> [heap EXCEPT ![individuo[aula_mutada]] =
                    AulaMutada(heap[individuo[aula_mutada]], novo_dia, novo_horario)]]

\* A mutation that also writes the drawn day and slot into the Session
\* after aula_mutada.
mutacao_dupla(individuo, heap, aula_mutada, novo_dia, novo_horario) ==
  IF individuo = << >> THEN [individuo |-> individuo, heap |-> heap]
  ELSE LET n == Len(individuo)
           copias == [i \in 1..n |-> heap[individuo[i]]]
       IN [individuo |-> [i \in 1..n |-> Len(heap) + i],
           heap |-> heap \o [i \in 1..n |->
                      IF i = aula_mutada \/ i = aula_mutada + 1
                      THEN AulaMutada(copias[i], novo_dia, novo_horario)
                      ELSE copias[i]]]

\* Every Session is copied (aula.copy()) into a new list; the drawn day and
\* slot are written into the copy at aula_mutada.
mutacao(individuo, heap, aula_mutada, novo_dia, novo_horario) ==
  IF individuo = << >> THEN [individuo |-> individuo, heap |-> heap]
  ELSE LET n == Len(individuo)
           copias == [i \in 1..n |-> heap[individuo[i]]]
       IN [individuo |-> [i \in 1..n |-> Len(heap) + i],
           heap |-> heap \o [copias EXCEPT ![aula_mutada] =
                               AulaMutada(copias[aula_mutada], novo_dia, novo_horario)]]

\* ---------------------------------------------------- algoritmo_genetico
VARIABLES
  exec,       \* the run: the local variables of algoritmo_genetico and its position
  ref,        \* the same run, same draws, with an observer that always returns None
  obs,        \* the observer of exec: what it was last called with and what it answered
  hist,       \* history of exec: what was evaluated, selected and created so far
  orcamento,  \* draws that may still take an option other than the first one
  caso        \* one call of a function on Candidates built for it (SpecFuncoes)

vars == << exec, ref, obs, hist, orcamento, caso >>

\* The locals of algoritmo_genetico once its arguments are bound
\* (melhor_global = None, melhor_fitness_global = -1).
EstadoInicial(tamanho_populacao, geracoes, callback_visualizacao) ==
  [pc |-> "gerar",
   tamanho_populacao |-> tamanho_populacao,
   geracoes |-> geracoes,
   callback_visualizacao |-> callback_visualizacao,
   geracao |-> 0,
   populacao |-> << >>,
   fitness_populacao |-> << >>,
   melhor_global |-> None,
   melhor_fitness_global |-> -1,
   melhores |-> << >>,
   nova_populacao |-> << >>,
   heap |-> << >>,
   retorno |-> None]

\* A generation loop that runs one turn short (range(geracoes - 1)).
ProximaIteracaoCurta(s, g) ==
  IF g < s.geracoes - 1 THEN [s EXCEPT !.pc = "avaliar", !.geracao = g]
  ELSE [s EXCEPT !.pc = "final"]

\* for geracao in range(geracoes): the loop is entered with index g, or left.
ProximaIteracao(s, g) ==
  IF g < s.geracoes THEN [s EXCEPT !.pc = "avaliar", !.geracao = g]
  ELSE [s EXCEPT !.pc = "final"]

\* One gerar_individuo() of the initial population.
Gerar(s, dias, horarios) ==
  LET r == gerar_individuo(s.heap, dias, horarios)
      s1 == [s EXCEPT !.populacao = Append(s.populacao, r.individuo), !.heap = r.heap]
  IN IF Len(s1.populacao) < s.tamanho_populacao THEN s1 ELSE ProximaIteracao(s1, 0)

\* sorted(zip(fitness, populacao), key=lambda x: -x[0]): a stable sort, so
\* equal scores keep their order.  Posicao is the place of element i.
Posicao(fitness, i) ==
  1 + Cardinality({ j \in 1..Len(fitness) :
                      fitness[j] > fitness[i] \/ (fitness[j] = fitness[i] /\ j < i) })

\* A sort that puts the lowest score first (key=lambda x: x[0]).
OrdenarCrescente(fitness, populacao) ==
  [k \in 1..Len(populacao) |->
     populacao[CHOOSE i \in 1..Len(populacao) :
                 k = 1 + Cardinality({ j \in 1..Len(fitness) :
                           fitness[j] < fitness[i] \/ (fitness[j] = fitness[i] /\ j < i) })]]

\* No sort: the Population in the order it has.
ManterOrdem(fitness, populacao) == populacao

\* A sort that puts the later of two Candidates of equal score first.
OrdenarInstavel(fitness, populacao) ==
  [k \in 1..Len(populacao) |->
     populacao[CHOOSE i \in 1..Len(populacao) :
                 k = 1 + Cardinality({ j \in 1..Len(fitness) :
                           fitness[j] > fitness[i] \/ (fitness[j] = fitness[i] /\ j > i) })]]

Ordenar(fitness, populacao) ==
  [k \in 1..Len(populacao) |->
     populacao[CHOOSE i \in 1..Len(populacao) : Posicao(fitness, i) = k]]

\* max(fitness_populacao)
Maximo(fitness) == CHOOSE m \in { fitness[i] : i \in 1..Len(fitness) } :
                     \A i \in 1..Len(fitness) : fitness[i] <= m

\* An update that keeps no comparison and follows the Candidate evaluated last.
AtualizarComUltimo(s, melhor_individuo, melhor_fitness) ==
  [s EXCEPT !.melhor_global = Some(s.populacao[Len(s.populacao)]),
            !.melhor_fitness_global = s.fitness_populacao[Len(s.fitness_populacao)]]

\* An update that keeps the first global best for the whole run.
AtualizarSoNaPrimeira(s, melhor_individuo, melhor_fitness) ==
  IF s.melhor_global = None
  THEN [s EXCEPT !.melhor_global = Some(melhor_individuo),
                 !.melhor_fitness_global = melhor_fitness]
  ELSE s

\* if melhor_fitness > melhor_fitness_global: replace the global best.
AtualizarMelhorGlobal(s, melhor_individuo, melhor_fitness) ==
  IF melhor_fitness > s.melhor_fitness_global
  THEN [s EXCEPT !.melhor_global = Some(melhor_individuo),
                 !.melhor_fitness_global = melhor_fitness]
  ELSE s

\* The evaluation of one generation: score, sort, track the global best.
Avaliar(s) ==
  LET fitness == [i \in 1..Len(s.populacao) |-> calcular_fitness(s.populacao[i], s.heap)]
      ordenada == Ordenar(fitness, s.populacao)
      s1 == [s EXCEPT !.fitness_populacao = fitness, !.populacao = ordenada]
      s2 == AtualizarMelhorGlobal(s1, ordenada[1], Maximo(fitness))
  IN [s2 EXCEPT !.pc = "callback5"]

\* max(2, ceil(tamanho_populacao / 5))
TamanhoEliteTeto(tamanho_populacao) == Max(2, (tamanho_populacao + 4) \div 5)

\* max(2, tamanho_populacao // 5)
TamanhoElite(tamanho_populacao) == Max(2, tamanho_populacao \div 5)

\* lista[:k]
Fatia(lista, k) == SubSeq(lista, 1, Min(k, Len(lista)))

\* A selection whose new Population starts empty (nova_populacao = []).
SelecionarSemElitismo(s) ==
  LET melhores == Fatia(s.populacao, TamanhoElite(s.tamanho_populacao))
  IN [s EXCEPT !.melhores = melhores, !.nova_populacao = << >>, !.pc = "reproduzir"]

\* melhores = populacao[:max(2, n//5)]; nova_populacao = melhores.copy()
Selecionar(s) ==
  LET melhores == Fatia(s.populacao, TamanhoElite(s.tamanho_populacao))
  IN [s EXCEPT !.melhores = melhores, !.nova_populacao = melhores, !.pc = "reproduzir"]

\* A fill loop that runs once more when the size is already reached.
PreencheAteUltrapassar(s) == Len(s.nova_populacao) <= s.tamanho_populacao

\* while len(nova_populacao) < tamanho_populacao
Preenchendo(s) == Len(s.nova_populacao) < s.tamanho_populacao

\* One turn of the fill loop: two parents from the elite, a child by
\* crossover, mutated when the draw says so.
Reproduzir(s, i1, i2, ponto_corte, muta, aula_mutada, novo_dia, novo_horario) ==
  LET filho == crossover(s.melhores[i1], s.melhores[i2], ponto_corte)
      r == IF muta THEN mutacao(filho, s.heap, aula_mutada, novo_dia, novo_horario)
           ELSE [individuo |-> filho, heap |-> s.heap]
  IN [s EXCEPT !.nova_populacao = Append(s.nova_populacao, r.individuo), !.heap = r.heap]

\* populacao = nova_populacao
Substituir(s) == [s EXCEPT !.populacao = s.nova_populacao, !.pc = "callback4"]

\* A call site that lets the observer's exception end the run.
AposCallbackPropaga(s, resposta, proximo) ==
  IF resposta = "Erro" THEN [s EXCEPT !.pc = "abortado"] ELSE proximo

\* A call site that leaves the generation loop when the observer returns False.
AposCallbackObedece(s, resposta, proximo) ==
  IF resposta = "False" /\ s.pc # "final" THEN [s EXCEPT !.pc = "final"] ELSE proximo

\* try: callback_visualizacao(...) except Exception: print(...).  The value
\* returned is dropped and an Exception is caught: the run goes on to
\* `proximo` whatever the observer answered.
AposCallback(s, resposta, proximo) == proximo

\* if callback_visualizacao and geracao % 5 == 0
Chama5(s) == s.callback_visualizacao /\ s.geracao % 5 = 0

Callback5(s, resposta) ==
  LET proximo == [s EXCEPT !.pc = "selecionar"]
  IN IF Chama5(s) THEN AposCallback(s, resposta, proximo) ELSE proximo

\* A four-argument call made only when the three-argument one is
\* (geracao % 5 == 0).
Chama4CadaCinco(s) == s.callback_visualizacao /\ s.geracao % 5 = 0

\* if callback_visualizacao is not None, after the population is replaced
Chama4(s) == s.callback_visualizacao

\* The four-argument call; then the next turn of the generation loop.
Callback4(s, resposta) ==
  LET proximo == ProximaIteracao(s, s.geracao + 1)
  IN IF Chama4(s) THEN AposCallback(s, resposta, proximo) ELSE proximo

\* The last call, after the loop.
CallbackFinal(s, resposta) ==
  LET proximo == [s EXCEPT !.pc = "retornar"]
  IN IF s.callback_visualizacao THEN AposCallback(s, resposta, proximo) ELSE proximo

\* return melhor_global
Retornar(s) == [s EXCEPT !.retorno = s.melhor_global, !.pc = "fim"]

\* -------------------------------------------------------------- observer
\* What the observer of exec has seen: the arguments of its last call
\* (populacao is None on the three-argument call) and what it answered.
ObsInicial ==
  [chamadas |-> 0, ultima |-> None, houve_erro |-> FALSE, houve_false |-> FALSE]

Chamada(s, geracao, populacao) ==
  [melhor_global |-> s.melhor_global, geracao |-> geracao,
   melhor_fitness_global |-> s.melhor_fitness_global, populacao |-> populacao]

Observar(o, chamada, resposta) ==
  [chamadas |-> o.chamadas + 1, ultima |-> Some(chamada),
   houve_erro |-> o.houve_erro \/ resposta = "Erro",
   houve_false |-> o.houve_false \/ resposta = "False"]

\* The observer returns True, False or None, or raises an Exception.
Respostas(r) == IF r > 0 THEN { "None", "True", "False", "Erro" } ELSE { "None" }
CustoResposta(resposta) == IF resposta = "None" THEN 0 ELSE 1

\* --------------------------------------------------------------- history
HistInicial ==
  [globais |-> << >>,            \* melhor_fitness_global after each evaluation
   max_avaliado |-> None,        \* best score of any Candidate evaluated so far
   melhor_fitness_por_geracao |-> << >>,  \* melhor_fitness of each generation
   geracoes_executadas |-> 0,    \* turns of the generation loop completed
   filhos |-> 0,                 \* crossovers performed
   mutacoes |-> 0,               \* mutations performed
   elite |-> << >>]              \* the Sessions of the elite when it was selected

MaxOpcional(atual, f) == IF atual = None THEN Some(f) ELSE Some(Max(atual[1], f))

\* ----------------------------------------------------------------- draws
\* The indices a draw over n options may return when r draws may still
\* leave the first option.
Opcoes(n, r) == IF r > 0 THEN 1..n ELSE { 1 }
Custo(x) == IF x = 1 THEN 0 ELSE 1

NumDisciplinas == Len(DISCIPLINAS)
NumDias == Min(MaxDias, Len(DIAS))

\* The draws of one gerar_individuo: site i is the day of course i, site
\* NumDisciplinas + i its slot.
Sitios == 1..(2 * NumDisciplinas)
NumOpcoes(sitio) ==
  IF sitio <= NumDisciplinas THEN NumDias
  ELSE Len(HorariosDe(DISCIPLINAS[sitio - NumDisciplinas].preferencia))
MaxOpcoes == Max(NumDias, Len(HORARIOS_MANHA \o HORARIOS_TARDE))

\* The other run takes the same step when it is at the same place.
Em(pc, novo) == IF ref.pc = pc THEN novo ELSE ref

\* ---------------------------------------------------- calls on Candidates
\* One call of calcular_fitness, crossover or mutacao on Candidates built
\* for it.  Session records (heap) and Candidates (listas) are both held by
\* reference; a call maps the memory to the memory after it, whether it
\* raised, and what it returned.
CasoInicial ==
  [pc |-> "montar", heap |-> << >>, listas |-> << >>, op |-> "nenhuma",
   args |-> << >>, antes |-> [heap |-> << >>, listas |-> << >>],
   levantou |-> FALSE, retorno |-> None, levantou2 |-> FALSE, retorno2 |-> None]

Memoria(c) == [heap |-> c.heap, listas |-> c.listas]

TodosHorarios == HORARIOS_MANHA \o HORARIOS_TARDE

\* A Session with the fields of course k, as gerar_individuo writes them,
\* in any room, on any day, at any slot.
AulaLivre(k, sala, dia, horario) ==
  [disciplina  |-> DISCIPLINAS[k].nome,
   professor   |-> DISCIPLINAS[k].professor,
   sala        |-> SALAS[sala],
   dia         |-> DIAS[dia],
   horario     |-> TodosHorarios[horario],
   tipo        |-> DISCIPLINAS[k].tipo,
   preferencia |-> DISCIPLINAS[k].preferencia]

\* The first choice for the Session at position i: the course of that
\* position (the Catalog taken again from its start after its end), in
\* the room it requires.
CursoPadrao(i) == 1 + ((i - 1) % NumDisciplinas)
SalaPadrao(k) == CHOOSE s \in 1..Len(SALAS) : SALAS[s] = DISCIPLINAS[k].sala_requerida

\* A calcular_fitness that empties the list it is given as it scans it.
ChamaCalcularFitnessDestrutiva(m, l) ==
  LET levanta == LevantaIndexError(m.listas[l], m.heap)
  IN [heap |-> m.heap, listas |-> [m.listas EXCEPT ![l] = << >>], levantou |-> levanta,
      retorno |-> IF levanta THEN None ELSE Some(calcular_fitness(m.listas[l], m.heap))]

\* calcular_fitness(listas[l]): no assignment to the list or to a Session.
ChamaCalcularFitness(m, l) ==
  LET levanta == LevantaIndexError(m.listas[l], m.heap)
  IN [heap |-> m.heap, listas |-> m.listas, levantou |-> levanta,
      retorno |-> IF levanta THEN None ELSE Some(calcular_fitness(m.listas[l], m.heap))]

\* A crossover that writes the child into its first parent
\* (pai1[ponto_corte:] = pai2[ponto_corte:]; return pai1).
ChamaCrossoverNoLugar(m, p1, p2, ponto_corte) ==
  [heap |-> m.heap,
   listas |-> [m.listas EXCEPT ![p1] = crossover(m.listas[p1], m.listas[p2], ponto_corte)],
   levantou |-> FALSE, retorno |-> Some(p1)]

\* crossover(listas[p1], listas[p2]): the concatenation of two slices is a
\* new list.
ChamaCrossover(m, p1, p2, ponto_corte) ==
  [heap |-> m.heap,
   listas |-> Append(m.listas, crossover(m.listas[p1], m.listas[p2], ponto_corte)),
   levantou |-> FALSE, retorno |-> Some(Len(m.listas) + 1)]

\* mutacao(listas[l]): the list given when it is empty, a new list of new
\* records otherwise.
ChamaMutacao(m, l, aula_mutada, novo_dia, novo_horario) ==
  IF m.listas[l] = << >>
  THEN [heap |-> m.heap, listas |-> m.listas, levantou |-> FALSE, retorno |-> Some(l)]
  ELSE LET r == mutacao(m.listas[l], m.heap, aula_mutada, novo_dia, novo_horario)
       IN [heap |-> r.heap, listas |-> Append(m.listas, r.individuo),
           levantou |-> FALSE, retorno |-> Some(Len(m.listas) + 1)]

\* gerar_individuo(): a new list of new records, or IndexError.
ChamaGerarIndividuo(m, catalogo, dias, horarios) ==
  LET r == gerar_individuo_com(catalogo, m.heap, dias, horarios)
  IN IF r.levantou
     THEN [heap |-> m.heap, listas |-> m.listas, levantou |-> TRUE, retorno |-> None]
     ELSE [heap |-> r.heap, listas |-> Append(m.listas, r.individuo),
           levantou |-> FALSE, retorno |-> Some(Len(m.listas) + 1)]

\* The module constants a call of gerar_individuo may find: the built-in
\* ones, and those with the first courses only, no day, or a slot list
\* empty.
Catalogos ==
  { [disciplinas |-> SubSeq(DISCIPLINAS, 1, k), dias |-> d,
     horarios_manha |-> m, horarios_tarde |-> t] :
      k \in 0..Len(DISCIPLINAS), d \in { << >>, DIAS },
      m \in { << >>, HORARIOS_MANHA }, t \in { << >>, HORARIOS_TARDE } }

\* ---------------------------------------------------------------- actions
GerarPopulacao ==
  /\ exec.pc = "gerar"
  /\ \E S \in { T \in SUBSET Sitios : Cardinality(T) <= orcamento } :
       \E f \in [S -> 2..MaxOpcoes] :
         /\ \A sitio \in S : f[sitio] <= NumOpcoes(sitio)
         /\ LET dias == [i \in 1..NumDisciplinas |-> IF i \in S THEN f[i] ELSE 1]
                horarios == [i \in 1..NumDisciplinas |->
                               IF NumDisciplinas + i \in S THEN f[NumDisciplinas + i] ELSE 1]
            IN /\ exec' = Gerar(exec, dias, horarios)
               /\ ref' = Em("gerar", Gerar(ref, dias, horarios))
               /\ orcamento' = orcamento - Cardinality(S)
  /\ UNCHANGED << obs, hist, caso >>

AvaliarGeracao ==
  /\ exec.pc = "avaliar"
  /\ LET novo == Avaliar(exec)
     IN /\ exec' = novo
        /\ hist' = [hist EXCEPT
                      !.globais = Append(@, novo.melhor_fitness_global),
                      !.melhor_fitness_por_geracao =
                         Append(@, Maximo(novo.fitness_populacao)),
                      !.max_avaliado = MaxOpcional(@, Maximo(novo.fitness_populacao))]
  /\ ref' = Em("avaliar", Avaliar(ref))
  /\ UNCHANGED << obs, orcamento, caso >>

Notificar5 ==
  /\ exec.pc = "callback5"
  /\ \E resposta \in (IF Chama5(exec) THEN Respostas(orcamento) ELSE { "None" }) :
       /\ exec' = Callback5(exec, resposta)
       /\ ref' = Em("callback5", Callback5(ref, "None"))
       /\ obs' = IF Chama5(exec)
                 THEN Observar(obs, Chamada(exec, exec.geracao, None), resposta)
                 ELSE obs
       /\ orcamento' = orcamento - CustoResposta(resposta)
  /\ UNCHANGED << hist, caso >>

SelecionarElite ==
  /\ exec.pc = "selecionar"
  /\ LET novo == Selecionar(exec)
     IN /\ exec' = novo
        /\ hist' = [hist EXCEPT !.elite = [i \in 1..Len(novo.melhores) |->
                                             Aulas(novo.melhores[i], novo.heap)]]
  /\ ref' = Em("selecionar", Selecionar(ref))
  /\ UNCHANGED << obs, orcamento, caso >>

ReproduzirFilho ==
  /\ exec.pc = "reproduzir"
  /\ Preenchendo(exec)
  /\ \E i1 \in Opcoes(Len(exec.melhores), orcamento) :
     \E i2 \in Opcoes(Len(exec.melhores), orcamento - Custo(i1)) :
     \E ponto_corte \in Opcoes(NumDisciplinas - 1, orcamento - Custo(i1) - Custo(i2)) :
       LET r3 == orcamento - Custo(i1) - Custo(i2) - Custo(ponto_corte)
           filho == crossover(exec.melhores[i1], exec.melhores[i2], ponto_corte)
       IN \E muta \in (IF r3 > 0 THEN BOOLEAN ELSE { FALSE }) :
            LET r4 == IF muta THEN r3 - 1 ELSE 0 IN
            \E aula_mutada \in Opcoes(Len(filho), r4) :
            \E novo_dia \in Opcoes(NumDias, r4 - Custo(aula_mutada)) :
            \E novo_horario \in
                 Opcoes(Len(HorariosDe(exec.heap[filho[aula_mutada]].preferencia)),
                        r4 - Custo(aula_mutada) - Custo(novo_dia)) :
              /\ exec' = Reproduzir(exec, i1, i2, ponto_corte, muta,
                                    aula_mutada, novo_dia, novo_horario)
              /\ ref' = Em("reproduzir", Reproduzir(ref, i1, i2, ponto_corte, muta,
                                                    aula_mutada, novo_dia, novo_horario))
              /\ hist' = [hist EXCEPT !.filhos = @ + 1,
                                      !.mutacoes = IF muta THEN @ + 1 ELSE @]
              /\ orcamento' = IF muta
                              THEN r4 - Custo(aula_mutada) - Custo(novo_dia) - Custo(novo_horario)
                              ELSE r3
  /\ UNCHANGED << obs, caso >>

SubstituirPopulacao ==
  /\ exec.pc = "reproduzir"
  /\ ~Preenchendo(exec)
  /\ exec' = Substituir(exec)
  /\ ref' = Em("reproduzir", Substituir(ref))
  /\ UNCHANGED << obs, hist, orcamento, caso >>

Notificar4 ==
  /\ exec.pc = "callback4"
  /\ \E resposta \in (IF Chama4(exec) THEN Respostas(orcamento) ELSE { "None" }) :
       /\ exec' = Callback4(exec, resposta)
       /\ ref' = Em("callback4", Callback4(ref, "None"))
       /\ obs' = IF Chama4(exec)
                 THEN Observar(obs, Chamada(exec, exec.geracao, Some(exec.populacao)), resposta)
                 ELSE obs
       /\ orcamento' = orcamento - CustoResposta(resposta)
  /\ hist' = [hist EXCEPT !.geracoes_executadas = @ + 1]
  /\ UNCHANGED caso

NotificarFinal ==
  /\ exec.pc = "final"
  /\ \E resposta \in (IF exec.callback_visualizacao THEN Respostas(orcamento) ELSE { "None" }) :
       /\ exec' = CallbackFinal(exec, resposta)
       /\ ref' = Em("final", CallbackFinal(ref, "None"))
       /\ obs' = IF exec.callback_visualizacao
                 THEN Observar(obs, Chamada(exec, exec.geracoes - 1, Some(exec.populacao)),
                               resposta)
                 ELSE obs
       /\ orcamento' = orcamento - CustoResposta(resposta)
  /\ UNCHANGED << hist, caso >>

RetornarMelhor ==
  /\ exec.pc = "retornar"
  /\ exec' = Retornar(exec)
  /\ ref' = Em("retornar", Retornar(ref))
  /\ UNCHANGED << obs, hist, orcamento, caso >>

\* --------------------------------------------------------- specifications
Inicio(tamanhos, geracoes, desvios) ==
  \E n \in tamanhos : \E g \in geracoes : \E cb \in BOOLEAN :
    /\ exec = EstadoInicial(n, g, cb)
    /\ ref = EstadoInicial(n, g, cb)
    /\ obs = ObsInicial
    /\ hist = HistInicial
    /\ orcamento = desvios
    /\ caso = CasoInicial

Init == Inicio(1..MaxPopulacao, 0..MaxGeracoes, MaxDesvios)

\* Runs of one generation over larger populations.
InitElite == Inicio(1..MaxPopulacaoElite, { 1 }, MaxDesviosElite)

Next ==
  \/ GerarPopulacao
  \/ AvaliarGeracao
  \/ Notificar5
  \/ SelecionarElite
  \/ ReproduzirFilho
  \/ SubstituirPopulacao
  \/ Notificar4
  \/ NotificarFinal
  \/ RetornarMelhor

Spec == Init /\ [][Next]_vars
SpecElite == InitElite /\ [][Next]_vars

\* ------------------------------------------- the calls, one at a time
\* A new, empty Candidate.
NovaLista ==
  /\ caso.pc = "montar"
  /\ Len(caso.listas) < MaxListas
  /\ caso' = [caso EXCEPT !.listas = Append(@, << >>)]
  /\ UNCHANGED << exec, ref, obs, hist, orcamento >>

\* One more Session at the end of the Candidate built last.
AcrescentarAula ==
  /\ caso.pc = "montar"
  /\ Len(caso.listas) >= 1
  /\ Len(caso.listas[Len(caso.listas)]) < MaxAulas
  /\ LET l == Len(caso.listas)
         i == Len(caso.listas[l]) + 1
     IN \E k \in 1..NumDisciplinas : \E sala \in 1..Len(SALAS) :
        \E dia \in 1..NumDias : \E horario \in 1..Len(TodosHorarios) :
          LET custo == (IF k = CursoPadrao(i) THEN 0 ELSE 1)
                       + (IF sala = SalaPadrao(k) THEN 0 ELSE 1)
                       + Custo(dia) + Custo(horario)
          IN /\ custo <= orcamento
             /\ caso' = [caso EXCEPT
                           !.heap = Append(@, AulaLivre(k, sala, dia, horario)),
                           !.listas[l] = Append(@, Len(caso.heap) + 1)]
             /\ orcamento' = orcamento - custo
  /\ UNCHANGED << exec, ref, obs, hist >>

ChamarCalcularFitness ==
  /\ caso.pc = "montar"
  /\ \E l \in 1..Len(caso.listas) :
       LET r == ChamaCalcularFitness(Memoria(caso), l)
       IN caso' = [caso EXCEPT !.pc = "avaliado", !.op = "calcular_fitness",
                     !.args = << l >>, !.antes = Memoria(caso),
                     !.heap = r.heap, !.listas = r.listas,
                     !.levantou = r.levantou, !.retorno = r.retorno]
  /\ UNCHANGED << exec, ref, obs, hist, orcamento >>

\* The same call once more, on the same list.
RepetirCalcularFitness ==
  /\ caso.pc = "avaliado"
  /\ LET r == ChamaCalcularFitness(Memoria(caso), caso.args[1])
     IN caso' = [caso EXCEPT !.pc = "pronto", !.heap = r.heap, !.listas = r.listas,
                   !.levantou2 = r.levantou, !.retorno2 = r.retorno]
  /\ UNCHANGED << exec, ref, obs, hist, orcamento >>

ChamarCrossover ==
  /\ caso.pc = "montar"
  /\ \E p1 \in 1..Len(caso.listas) : \E p2 \in 1..Len(caso.listas) :
     \E ponto_corte \in 1..(NumDisciplinas - 1) :
       LET r == ChamaCrossover(Memoria(caso), p1, p2, ponto_corte)
       IN caso' = [caso EXCEPT !.pc = "cruzado", !.op = "crossover",
                     !.args = << p1, p2 >>, !.antes = Memoria(caso),
                     !.heap = r.heap, !.listas = r.listas, !.retorno = r.retorno]
  /\ UNCHANGED << exec, ref, obs, hist, orcamento >>

\* mutacao of a Candidate built for it, or of the child a crossover returned.
ChamarMutacao ==
  /\ caso.pc \in { "montar", "cruzado" }
  /\ \E l \in (IF caso.pc = "cruzado" THEN { caso.retorno[1] } ELSE 1..Len(caso.listas)) :
     \E aula_mutada \in 1..Max(1, Len(caso.listas[l])) :
     \E novo_dia \in Opcoes(NumDias, orcamento) :
     \E novo_horario \in
          Opcoes(IF caso.listas[l] = << >> THEN 1
                 ELSE Len(HorariosDe(caso.heap[caso.listas[l][aula_mutada]].preferencia)),
                 orcamento - Custo(novo_dia)) :
       LET r == ChamaMutacao(Memoria(caso), l, aula_mutada, novo_dia, novo_horario)
       IN /\ caso' = [caso EXCEPT !.pc = "pronto", !.op = "mutacao",
                        !.args = << l, aula_mutada >>, !.antes = Memoria(caso),
                        !.heap = r.heap, !.listas = r.listas, !.retorno = r.retorno]
          /\ orcamento' = orcamento - Custo(novo_dia) - Custo(novo_horario)
  /\ UNCHANGED << exec, ref, obs, hist >>

\* gerar_individuo() in an empty memory, first choice at every draw.
ChamarGerarIndividuo ==
  /\ caso.pc = "montar"
  /\ caso.listas = << >>
  /\ \E catalogo \in Catalogos :
       LET r == ChamaGerarIndividuo(Memoria(caso), catalogo,
                                    [i \in 1..Len(catalogo.disciplinas) |-> 1],
                                    [i \in 1..Len(catalogo.disciplinas) |-> 1])
       IN caso' = [caso EXCEPT !.pc = "pronto", !.op = "gerar_individuo",
                     !.args = << catalogo >>, !.antes = Memoria(caso),
                     !.heap = r.heap, !.listas = r.listas,
                     !.levantou = r.levantou, !.retorno = r.retorno]
  /\ UNCHANGED << exec, ref, obs, hist, orcamento >>

InitFuncoes ==
  /\ exec = EstadoInicial(1, 0, FALSE)
  /\ ref = EstadoInicial(1, 0, FALSE)
  /\ obs = ObsInicial
  /\ hist = HistInicial
  /\ orcamento = MaxDesviosFuncoes
  /\ caso = CasoInicial

NextFuncoes ==
  \/ NovaLista
  \/ AcrescentarAula
  \/ ChamarCalcularFitness
  \/ RepetirCalcularFitness
  \/ ChamarCrossover
  \/ ChamarMutacao
  \/ ChamarGerarIndividuo

SpecFuncoes == InitFuncoes /\ [][NextFuncoes]_vars

\* ================================================================ claims
\* Places of a run after the initial population is complete.
PopulacaoCompleta == exec.pc # "gerar"
Fitness(individuo) == calcular_fitness(individuo, exec.heap)

\* C1: the tracked global-best fitness never decreases from one generation
\* to the next: its value after generation g is >= its value after g-1.
C1_MelhorGlobalNaoDecresce ==
  \A g \in 2..Len(hist.globais) : hist.globais[g] >= hist.globais[g - 1]

\* A run whose global best rose in generation 1.
C1_Witness ==
  /\ Len(hist.globais) >= 2
  /\ hist.globais[2] > hist.globais[1]

\* C2: with generationCount >= 1 the Candidate returned scores the maximum
\* of calcular_fitness over every Candidate of every Population evaluated.
C2_RetornaOMelhor ==
  (exec.pc = "fim" /\ exec.geracoes >= 1) =>
     /\ exec.retorno # None
     /\ Fitness(exec.retorno[1]) = hist.max_avaliado[1]

\* A finished run that returns a Candidate found after generation 0.
C2_Witness ==
  /\ exec.pc = "fim"
  /\ Len(hist.globais) >= 2
  /\ exec.retorno # None
  /\ Fitness(exec.retorno[1]) > hist.globais[1]

\* C3 (as claimed): with generationCount = 0 the run returns a member of
\* the initial Population, and no crossover or mutation was performed.
C3_RetornaDaPopulacaoInicial ==
  (exec.pc = "fim" /\ exec.geracoes = 0) =>
     /\ exec.retorno # None
     /\ \E j \in 1..Len(exec.populacao) : exec.populacao[j] = exec.retorno[1]
     /\ hist.filhos = 0
     /\ hist.mutacoes = 0

\* C4: every Candidate of the elite of generation N is in the Population of
\* generation N+1 with all its Sessions as they were when it was selected;
\* no crossover or mutation of the fill loop alters a Session of the elite.
C4_ElitePreservada ==
  /\ \A i \in 1..Len(exec.melhores) :
       Aulas(exec.melhores[i], exec.heap) = hist.elite[i]
  /\ exec.pc \in { "callback4", "avaliar", "callback5", "selecionar",
                   "final", "retornar", "fim" } =>
       \A i \in 1..Len(exec.melhores) :
         \E j \in 1..Len(exec.populacao) : exec.populacao[j] = exec.melhores[i]

\* A new Population holding a mutated child whose Sessions differ from those
\* of every elite Candidate, beside a child that shares its records.
C4_Witness ==
  /\ exec.pc = "callback4"
  /\ hist.mutacoes >= 1
  /\ \E j \in 1..Len(exec.populacao) :
       \A i \in 1..Len(exec.melhores) :
         Aulas(exec.populacao[j], exec.heap) # hist.elite[i]

\* C5 (as claimed): the elite holds exactly max(2, populationSize // 5)
\* Candidates in every generation, for every positive populationSize.
C5_EliteTemMax2 ==
  exec.pc = "reproduzir" =>
    Len(exec.melhores) = Max(2, exec.tamanho_populacao \div 5)

C7_TamanhoDaPopulacao ==
  /\ PopulacaoCompleta => Len(exec.populacao) = exec.tamanho_populacao
  /\ Len(exec.nova_populacao) <= exec.tamanho_populacao

\* A Population replaced after the fill loop created children.
C7_Witness ==
  /\ exec.pc = "callback4"
  /\ hist.filhos >= 1
  /\ Len(exec.populacao) = exec.tamanho_populacao
  /\ Len(exec.populacao) > Len(exec.melhores)

\* The order of the places of a run: evaluate, select, reproduce, and only
\* then the next generation, whose index is one more.
Sequencia(s, t) ==
  \/ s.pc = "gerar" /\ t.pc \in { "gerar", "avaliar", "final" }
  \/ s.pc = "avaliar" /\ t.pc = "callback5" /\ t.geracao = s.geracao
  \/ s.pc = "callback5" /\ t.pc = "selecionar" /\ t.geracao = s.geracao
  \/ s.pc = "selecionar" /\ t.pc = "reproduzir" /\ t.geracao = s.geracao
  \/ s.pc = "reproduzir" /\ t.pc \in { "reproduzir", "callback4" } /\ t.geracao = s.geracao
  \/ s.pc = "callback4" /\ t.pc = "avaliar" /\ t.geracao = s.geracao + 1
  \/ s.pc = "callback4" /\ t.pc = "final" /\ s.geracao + 1 = s.geracoes
  \/ s.pc = "final" /\ t.pc = "retornar"
  \/ s.pc = "retornar" /\ t.pc = "fim"

\* Steps a run has left: those of the fill of the initial Population, of
\* the generations not yet finished, and the last call and the return.
PassosPorGeracao(s) ==
  5 + s.tamanho_populacao - Min(s.tamanho_populacao, TamanhoElite(s.tamanho_populacao))

Medida(s) ==
  LET depois(g) == (s.geracoes - g) * PassosPorGeracao(s) + 2
  IN CASE s.pc = "gerar" -> (s.tamanho_populacao - Len(s.populacao)) + depois(0)
       [] s.pc = "avaliar" -> depois(s.geracao)
       [] s.pc = "callback5" -> depois(s.geracao) - 1
       [] s.pc = "selecionar" -> depois(s.geracao) - 2
       [] s.pc = "reproduzir" ->
            (s.tamanho_populacao - Len(s.nova_populacao)) + 2 + depois(s.geracao + 1)
       [] s.pc = "callback4" -> 1 + depois(s.geracao + 1)
       [] s.pc = "final" -> 2
       [] s.pc = "retornar" -> 1
       [] OTHER -> 0

\* C8: the run terminates (every step brings the return exactly one step
\* nearer, and it is never anywhere but at a place of the loop or returned),
\* after exactly generationCount generations, each one evaluated, then
\* selected, then reproduced before the next begins; no score ends it early.
C8_TerminaAposTodasAsGeracoes ==
  /\ [](exec.pc \in { "gerar", "avaliar", "callback5", "selecionar", "reproduzir",
                      "callback4", "final", "retornar", "fim" })
  /\ [](exec.pc = "fim" <=> Medida(exec) = 0)
  /\ [](exec.pc = "fim" => hist.geracoes_executadas = exec.geracoes)
  /\ [][Sequencia(exec, exec') /\ Medida(exec') = Medida(exec) - 1]_vars

\* A finished run of two generations whose global best was already above
\* its first value.
C8_Witness ==
  /\ exec.pc = "fim"
  /\ exec.geracoes = 2
  /\ hist.geracoes_executadas = 2
  /\ hist.globais[2] > hist.globais[1]

\* C9: what the observer returns has no influence: a run whose observer
\* only returned values (True, False, None) is, at every step, where the
\* run with an observer returning None is: same Populations, same
\* generation, same Candidate returned.
C9_RetornoIgnorado == ~obs.houve_erro => exec = ref

\* The observer returned False during generation 0 and generation 1 began.
C9_Witness ==
  /\ obs.houve_false
  /\ ~obs.houve_erro
  /\ exec.pc = "avaliar"
  /\ exec.geracao = 1

\* C10: an observer that raised is caught at the call site: the run is
\* never ended by it, stays where the run with an observer that never fails
\* is, executes every generation and returns the same Candidate.
C10_ErroCapturado ==
  obs.houve_erro =>
    /\ exec.pc # "abortado"
    /\ exec.pc = ref.pc /\ exec.geracao = ref.geracao
    /\ exec.populacao = ref.populacao /\ exec.heap = ref.heap
    /\ exec.pc = "fim" =>
         /\ hist.geracoes_executadas = exec.geracoes
         /\ exec.retorno = ref.retorno

\* The observer raised inside the loop and the run finished all the same.
C10_Witness ==
  /\ obs.houve_erro
  /\ exec.pc = "fim"
  /\ exec.geracoes >= 1
  /\ obs.chamadas >= 3

Entrada(n) == Aulas(caso.antes.listas[caso.args[n]], caso.antes.heap)
Saida == Aulas(caso.listas[caso.retorno[1]], caso.heap)
Pontuou == caso.op = "calcular_fitness" /\ ~caso.levantou

\* The score of the Candidate whose Sessions are a.
PontuacaoDe(a) == calcular_fitness([k \in 1..Len(a) |-> k], a)

\* The pairs of positions with the same day and slot, the labs outside the
\* room required at their position, the Sessions outside the slot list of
\* a morning or afternoon preference.
Sobrepostos(a) ==
  { p \in (1..Len(a)) \X (1..Len(a)) :
      p[1] < p[2] /\ a[p[1]].dia = a[p[2]].dia /\ a[p[1]].horario = a[p[2]].horario }
SalasErradas(a) ==
  { i \in 1..Min(Len(a), NumDisciplinas) :
      a[i].tipo = "laboratorio" /\ a[i].sala # DISCIPLINAS[i].sala_requerida }
ForaDaPreferencia(a) ==
  { i \in 1..Len(a) :
      \/ a[i].preferencia = "manha"
         /\ a[i].horario \notin { HORARIOS_MANHA[k] : k \in 1..Len(HORARIOS_MANHA) }
      \/ a[i].preferencia = "tarde"
         /\ a[i].horario \notin { HORARIOS_TARDE[k] : k \in 1..Len(HORARIOS_TARDE) } }

\* C12: every score calcular_fitness returns is at most 1000, for lists of
\* any length, days, slots, rooms and instructors (on a lab Session at a
\* position beyond the Catalog it raises IndexError and returns no score).
C12_NoMaximo1000 ==
  Pontuou => (caso.retorno # None /\ caso.retorno[1] <= 1000)

\* A Candidate longer than the Catalog was scored, below 1000.
C12_Witness ==
  /\ Pontuou
  /\ Len(Entrada(1)) > NumDisciplinas
  /\ caso.retorno[1] < 1000

\* C13: a Candidate with no pair of Sessions on the same day and slot, no
\* lab outside its required room and no Session outside its preference
\* scores exactly 1000.
C13_SemPenalidadeVale1000 ==
  (/\ Pontuou
   /\ Sobrepostos(Entrada(1)) = { }
   /\ SalasErradas(Entrada(1)) = { }
   /\ ForaDaPreferencia(Entrada(1)) = { }) => caso.retorno = Some(1000)

\* Two Sessions that share no day and slot, each in its room and inside its
\* preference, scored 1000.
C13_Witness ==
  /\ Pontuou
  /\ Len(Entrada(1)) >= 2
  /\ Sobrepostos(Entrada(1)) = { }
  /\ SalasErradas(Entrada(1)) = { }
  /\ ForaDaPreferencia(Entrada(1)) = { }
  /\ caso.retorno = Some(1000)

\* 1000 less 150 for each pair on the same day and slot, 200 more when the
\* pair has one instructor, 200 more when it has one room, less 300 for each
\* lab outside its required room and 50 for each Session outside its
\* preference.
PontuacaoEsperada(a) ==
  1000 - 150 * Cardinality(Sobrepostos(a))
       - 200 * Cardinality({ p \in Sobrepostos(a) : a[p[1]].professor = a[p[2]].professor })
       - 200 * Cardinality({ p \in Sobrepostos(a) : a[p[1]].sala = a[p[2]].sala })
       - 300 * Cardinality(SalasErradas(a))
       - 50 * Cardinality(ForaDaPreferencia(a))

\* C14: the score is 1000 minus 150 (+200 same instructor, +200 same room)
\* for each unordered pair of Sessions with equal day and slot, minus 300
\* for each lab position outside the Catalog's required room, minus 50 for
\* each Session outside its morning or afternoon slot list.
C14_PontuacaoPelaFormula ==
  Pontuou => caso.retorno[1] = PontuacaoEsperada(Entrada(1))

\* A scored Candidate with two Sessions of one instructor in different
\* rooms on the same day and slot, and with a Session outside its
\* preference.
C14_Witness ==
  /\ Pontuou
  /\ \E p \in Sobrepostos(Entrada(1)) :
       /\ Entrada(1)[p[1]].professor = Entrada(1)[p[2]].professor
       /\ Entrada(1)[p[1]].sala # Entrada(1)[p[2]].sala
  /\ ForaDaPreferencia(Entrada(1)) # { }
  /\ caso.retorno[1] = PontuacaoEsperada(Entrada(1))

\* The Candidate a with another room at position i; the lab positions of a
\* that are in the room required there; the rooms other than that one; the
\* Sessions other than i on the day and slot of i that are in a room.
ComSala(a, i, sala) == [a EXCEPT ![i].sala = sala]
LabsNaSalaRequerida(a) ==
  { i \in 1..Min(Len(a), NumDisciplinas) :
      a[i].tipo = "laboratorio" /\ a[i].sala = DISCIPLINAS[i].sala_requerida }
OutrasSalas(i) == { SALAS[s] : s \in 1..Len(SALAS) } \ { DISCIPLINAS[i].sala_requerida }
JuntoNaSala(a, i, sala) ==
  { j \in 1..Len(a) :
      j # i /\ a[j].dia = a[i].dia /\ a[j].horario = a[i].horario /\ a[j].sala = sala }

\* C15 (as claimed): for every Candidate and every lab position i, another
\* room in place of the required room at i lowers the score by exactly
\* 300, whatever the days and slots of the Sessions.
C15_TrocaDeSalaCusta300 ==
  Pontuou =>
    \A i \in LabsNaSalaRequerida(Entrada(1)) : \A sala \in OutrasSalas(i) :
      PontuacaoDe(ComSala(Entrada(1), i, sala)) = caso.retorno[1] - 300

\* C15 (amended): another room in place of the required room at lab
\* position i changes the score by -300 for the lab outside its room, -200
\* for each other Session on the day and slot of i that is in the new room
\* and +200 for each one that is in the required room; it lowers the score
\* by exactly 300 when no other Session shares day and slot with Session i.
C15_TrocaDeSalaCusta300MaisConflitos ==
  Pontuou =>
    \A i \in LabsNaSalaRequerida(Entrada(1)) : \A sala \in OutrasSalas(i) :
      LET a == Entrada(1)
          nova == PontuacaoDe(ComSala(a, i, sala))
      IN /\ nova = caso.retorno[1] - 300
                     - 200 * Cardinality(JuntoNaSala(a, i, sala))
                     + 200 * Cardinality(JuntoNaSala(a, i, a[i].sala))
         /\ (\A p \in Sobrepostos(a) : p[1] # i /\ p[2] # i) => nova = caso.retorno[1] - 300

\* A scored Candidate with a lab in its required room and another Session
\* in that room on the same day and slot: another room for the lab lowers
\* the score by 100.
C15_Witness ==
  /\ Pontuou
  /\ \E i \in LabsNaSalaRequerida(Entrada(1)) : \E sala \in OutrasSalas(i) :
       /\ JuntoNaSala(Entrada(1), i, Entrada(1)[i].sala) # { }
       /\ PontuacaoDe(ComSala(Entrada(1), i, sala)) = caso.retorno[1] - 100

C17_FilhoPorPontoDeCorte ==
  (/\ caso.op = "crossover"
   /\ Len(caso.antes.listas[caso.args[1]]) = NumDisciplinas
   /\ Len(caso.antes.listas[caso.args[2]]) = NumDisciplinas) =>
    LET pai1 == caso.antes.listas[caso.args[1]]
        pai2 == caso.antes.listas[caso.args[2]]
        filho == caso.listas[caso.retorno[1]]
    IN /\ NumDisciplinas >= 2
       /\ Len(filho) = NumDisciplinas
       /\ \E c \in 1..(NumDisciplinas - 1) :
            \A i \in 1..NumDisciplinas : filho[i] = IF i <= c THEN pai1[i] ELSE pai2[i]
       /\ filho[1] = pai1[1]
       /\ filho[NumDisciplinas] = pai2[NumDisciplinas]

\* The child of two different parents of length courseCount, equal to
\* neither.
C17_Witness ==
  /\ caso.op = "crossover"
  /\ Len(caso.antes.listas[caso.args[1]]) = NumDisciplinas
  /\ Len(caso.antes.listas[caso.args[2]]) = NumDisciplinas
  /\ caso.listas[caso.retorno[1]] # caso.antes.listas[caso.args[1]]
  /\ caso.listas[caso.retorno[1]] # caso.antes.listas[caso.args[2]]

\* C18: crossover does not mutate its parents: after the call every list
\* that existed before it, both parents among them, has the length and the
\* Sessions it had, and every Session record its field values.
C18_PaisIntactos ==
  caso.op = "crossover" =>
    /\ \A l \in 1..Len(caso.antes.listas) : caso.listas[l] = caso.antes.listas[l]
    /\ caso.heap = caso.antes.heap
    /\ Aulas(caso.listas[caso.args[1]], caso.heap) = Entrada(1)
    /\ Aulas(caso.listas[caso.args[2]], caso.heap) = Entrada(2)

\* A crossover of two parents of different lengths returned a child that
\* is not its first parent.
C18_Witness ==
  /\ caso.op = "crossover"
  /\ Entrada(1) # << >>
  /\ Entrada(2) # << >>
  /\ Len(Entrada(1)) # Len(Entrada(2))
  /\ Saida # Entrada(1)

\* C19: for a non-empty Candidate mutacao returns a Candidate of the same
\* length that differs from it in at most one position, and there only in
\* day and slot: course name, instructor, room, kind and preference are
\* the same at every position.
C19_MutacaoDeUmaAula ==
  (caso.op = "mutacao" /\ Entrada(1) # << >>) =>
    /\ Len(Saida) = Len(Entrada(1))
    /\ Cardinality({ i \in 1..Len(Saida) : Saida[i] # Entrada(1)[i] }) <= 1
    /\ \A i \in 1..Len(Saida) :
         /\ Saida[i].disciplina = Entrada(1)[i].disciplina
         /\ Saida[i].professor = Entrada(1)[i].professor
         /\ Saida[i].sala = Entrada(1)[i].sala
         /\ Saida[i].tipo = Entrada(1)[i].tipo
         /\ Saida[i].preferencia = Entrada(1)[i].preferencia

\* A mutation of a Candidate of several Sessions changed the slot of
\* exactly one of them.
C19_Witness ==
  /\ caso.op = "mutacao"
  /\ Len(Entrada(1)) >= 2
  /\ Cardinality({ i \in 1..Len(Saida) : Saida[i] # Entrada(1)[i] }) = 1
  /\ \E i \in 1..Len(Saida) : Saida[i].horario # Entrada(1)[i].horario

\* C20: mutacao never modifies its input: for a non-empty Candidate it
\* returns a new list of new Session records, and every list and every
\* Session record that existed before the call, those shared with other
\* Candidates among them, is as it was; for an empty Candidate it returns
\* the list it was given.
C20_MutacaoNaoAlteraEntrada ==
  caso.op = "mutacao" =>
    /\ \A l \in 1..Len(caso.antes.listas) : caso.listas[l] = caso.antes.listas[l]
    /\ \A h \in 1..Len(caso.antes.heap) : caso.heap[h] = caso.antes.heap[h]
    /\ IF caso.antes.listas[caso.args[1]] = << >>
       THEN caso.retorno = Some(caso.args[1]) /\ Memoria(caso) = caso.antes
       ELSE /\ caso.retorno = Some(Len(caso.antes.listas) + 1)
            /\ \A i \in 1..Len(caso.listas[caso.retorno[1]]) :
                 caso.listas[caso.retorno[1]][i] > Len(caso.antes.heap)

\* The child of a crossover, which shares its Session records with its
\* parents, was mutated into a Candidate with other contents.
C20_Witness ==
  /\ caso.op = "mutacao"
  /\ \E l \in 1..Len(caso.antes.listas) :
       /\ l # caso.args[1]
       /\ \E i \in 1..Len(caso.antes.listas[l]) :
          \E j \in 1..Len(caso.antes.listas[caso.args[1]]) :
            caso.antes.listas[l][i] = caso.antes.listas[caso.args[1]][j]
  /\ Saida # Entrada(1)

\* ------------------------------------------------ claims C21 to C30
\* The slots a preference allows.
SlotsDaPreferencia(preferencia) ==
  IF preferencia = "manha" THEN { HORARIOS_MANHA[k] : k \in 1..Len(HORARIOS_MANHA) }
  ELSE IF preferencia = "tarde" THEN { HORARIOS_TARDE[k] : k \in 1..Len(HORARIOS_TARDE) }
  ELSE { HORARIOS_MANHA[k] : k \in 1..Len(HORARIOS_MANHA) }
         \cup { HORARIOS_TARDE[k] : k \in 1..Len(HORARIOS_TARDE) }

\* C21: every Candidate gerar_individuo returns has one Session per Catalog
\* course in Catalog order, with name, instructor, room, kind and preference
\* of the Catalog entry at its position, a day of the Day set and a slot of
\* the Morning list, the Afternoon list or both, by its preference.
C21_GeradoConformeCatalogo ==
  (exec.pc = "gerar" \/ (exec.pc = "avaliar" /\ exec.geracao = 0)) =>
    \A j \in 1..Len(exec.populacao) :
      LET a == Aulas(exec.populacao[j], exec.heap)
      IN /\ Len(a) = Len(DISCIPLINAS)
         /\ \A i \in 1..Len(a) :
              /\ a[i].disciplina = DISCIPLINAS[i].nome
              /\ a[i].professor = DISCIPLINAS[i].professor
              /\ a[i].sala = DISCIPLINAS[i].sala_requerida
              /\ a[i].tipo = DISCIPLINAS[i].tipo
              /\ a[i].preferencia = DISCIPLINAS[i].preferencia
              /\ a[i].dia \in { DIAS[k] : k \in 1..Len(DIAS) }
              /\ a[i].horario \in SlotsDaPreferencia(DISCIPLINAS[i].preferencia)

\* An initial Population with the course of preference "qualquer" in an
\* afternoon slot and a Session on a day other than the first.
C21_Witness ==
  /\ exec.pc = "avaliar"
  /\ exec.geracao = 0
  /\ \E j \in 1..Len(exec.populacao) :
       LET a == Aulas(exec.populacao[j], exec.heap)
       IN /\ \E i \in 1..Len(a) :
               a[i].preferencia = "qualquer" /\ Pertence(a[i].horario, HORARIOS_TARDE)
          /\ \E i \in 1..Len(a) : a[i].dia # DIAS[1]

\* A catalog with no course, no day or an empty slot list.
Malformado(catalogo) ==
  \/ catalogo.disciplinas = << >>
  \/ catalogo.dias = << >>
  \/ catalogo.horarios_manha = << >>
  \/ catalogo.horarios_tarde = << >>

\* C23 (as claimed): with a malformed Catalog (no course, no day, or an
\* empty slot list) gerar_individuo fails with an error and returns no
\* Candidate; with no course it never returns an empty Candidate.
C23_CatalogoMalformadoFalha ==
  (caso.op = "gerar_individuo" /\ Malformado(caso.args[1])) =>
    /\ caso.levantou
    /\ caso.retorno = None

\* The Candidates a run holds: those of the Population, of the Population
\* being filled, of the elite, and the global best.
Candidatos ==
  { exec.populacao[j] : j \in 1..Len(exec.populacao) }
    \cup { exec.nova_populacao[j] : j \in 1..Len(exec.nova_populacao) }
    \cup { exec.melhores[j] : j \in 1..Len(exec.melhores) }
    \cup { exec.melhor_global[j] : j \in 1..Len(exec.melhor_global) }

\* C22: positional alignment holds in the whole run: every Candidate of
\* every Population, every crossover child and every mutation result has
\* as many Sessions as the Catalog has courses, and its Session at position
\* i carries the name of Catalog course i.
C22_AlinhamentoPosicional ==
  \A c \in Candidatos :
    /\ Len(c) = Len(DISCIPLINAS)
    /\ \A i \in 1..Len(c) : exec.heap[c[i]].disciplina = DISCIPLINAS[i].nome

\* Generation 1 begins with a Population that holds crossover children,
\* one of them mutated.
C22_Witness ==
  /\ exec.pc = "avaliar"
  /\ exec.geracao = 1
  /\ hist.filhos >= 1
  /\ hist.mutacoes >= 1

\* C24: the global best starts as no Candidate with score -1 and changes
\* only in the evaluation of a generation, and there exactly when the best
\* score of the generation is strictly greater than the global-best score:
\* it becomes the generation's best Candidate and score; on an equal (or
\* lower) score the Candidate and score tracked before are kept.
C24_SubstituiSoSeMelhor ==
  /\ [](Len(hist.globais) = 0 =>
          (exec.melhor_global = None /\ exec.melhor_fitness_global = -1))
  /\ [][IF exec.pc = "avaliar"
        THEN LET melhor == Maximo(exec'.fitness_populacao)
             IN IF melhor > exec.melhor_fitness_global
                THEN /\ exec'.melhor_global = Some(exec'.populacao[1])
                     /\ exec'.melhor_fitness_global = melhor
                     /\ calcular_fitness(exec'.populacao[1], exec'.heap) = melhor
                ELSE /\ exec'.melhor_global = exec.melhor_global
                     /\ exec'.melhor_fitness_global = exec.melhor_fitness_global
        ELSE /\ exec'.melhor_global = exec.melhor_global
             /\ exec'.melhor_fitness_global = exec.melhor_fitness_global]_vars

\* Generation 1 was evaluated, its best score equals the global-best score
\* of generation 0, and the global best is the Candidate it was.
C24_Witness ==
  /\ exec.pc = "callback5"
  /\ exec.geracao = 1
  /\ hist.filhos >= 1
  /\ Maximo(exec.fitness_populacao) = hist.globais[1]
  /\ exec.melhor_fitness_global = hist.globais[1]

\* C25: after the Selecting step the Population is in descending order of
\* score, the elite is its start, every Candidate of the elite scores at
\* least what every Candidate outside it scores, and the Candidate with
\* the generation's maximum score is in the elite.
C25_OrdenadaPorFitness ==
  exec.pc = "reproduzir" =>
    LET n == Len(exec.populacao)
        k == Len(exec.melhores)
    IN /\ \A i \in 1..n : \A j \in i..n :
            Fitness(exec.populacao[i]) >= Fitness(exec.populacao[j])
       /\ k >= 1
       /\ \A i \in 1..k : exec.melhores[i] = exec.populacao[i]
       /\ \A i \in 1..k : \A j \in (k + 1)..n :
            Fitness(exec.melhores[i]) >= Fitness(exec.populacao[j])
       /\ Fitness(exec.melhores[1]) = Maximo(exec.fitness_populacao)

\* Three Candidates of three different scores were sorted and the two best
\* retained.
C25_Witness ==
  /\ exec.pc = "reproduzir"
  /\ Len(exec.populacao) = 3
  /\ Len(exec.melhores) = 2
  /\ Fitness(exec.populacao[1]) > Fitness(exec.populacao[2])
  /\ Fitness(exec.populacao[2]) > Fitness(exec.populacao[3])

\* C26 (as claimed): on every call of the observer, for every
\* generationCount >= 0, the score reported is calcular_fitness of the
\* Candidate reported.
C26_FitnessRelatadoConfere ==
  obs.ultima # None =>
    /\ obs.ultima[1].melhor_global # None
    /\ Fitness(obs.ultima[1].melhor_global[1]) = obs.ultima[1].melhor_fitness_global

\* C27 (as claimed, for runs of at least one generation): on every call of
\* the observer that carries a Population, the global-best score reported
\* is at least the score of every Candidate of that Population.
C27_PopulacaoNaoSuperaMelhor ==
  (exec.geracoes >= 1 /\ obs.ultima # None /\ obs.ultima[1].populacao # None) =>
    \A j \in 1..Len(obs.ultima[1].populacao[1]) :
      Fitness(obs.ultima[1].populacao[1][j]) <= obs.ultima[1].melhor_fitness_global

\* C28: after the Selecting step the global best is the first Candidate of
\* the sorted Population (on equal scores the stable sort keeps the elite
\* carried over first), so it is in the elite, and the Population passed
\* to the observer after reproduction holds it.
C28_MelhorGlobalNaFrente ==
  /\ exec.pc \in { "callback5", "selecionar", "reproduzir" } =>
       exec.melhor_global = Some(exec.populacao[1])
  /\ exec.pc = "reproduzir" =>
       /\ exec.melhor_global = Some(exec.melhores[1])
       /\ exec.nova_populacao[1] = exec.melhor_global[1]
  /\ exec.pc = "callback4" =>
       \E j \in 1..Len(exec.populacao) : exec.melhor_global = Some(exec.populacao[j])
  /\ (obs.ultima # None /\ obs.ultima[1].populacao # None /\ exec.geracoes >= 1) =>
       \E j \in 1..Len(obs.ultima[1].populacao[1]) :
         obs.ultima[1].melhor_global = Some(obs.ultima[1].populacao[1][j])

\* In generation 1 another Candidate scores what the global best scores
\* and the global best, carried over from generation 0, stays first.
C28_Witness ==
  /\ exec.pc = "reproduzir"
  /\ exec.geracao = 1
  /\ exec.melhor_global = Some(exec.populacao[1])
  /\ hist.globais[2] = hist.globais[1]
  /\ \E j \in 2..Len(exec.populacao) :
       /\ exec.populacao[j] # exec.populacao[1]
       /\ Fitness(exec.populacao[j]) = Fitness(exec.populacao[1])

\* C29: the best score of the Population evaluated in generation g+1 is
\* at least that of generation g, and after every generation the
\* global-best score is the best score of the Population evaluated in it.
C29_MelhorDaGeracaoNaoDecresce ==
  /\ Len(hist.melhor_fitness_por_geracao) = Len(hist.globais)
  /\ \A g \in 2..Len(hist.melhor_fitness_por_geracao) :
       hist.melhor_fitness_por_geracao[g] >= hist.melhor_fitness_por_geracao[g - 1]
  /\ \A g \in 1..Len(hist.melhor_fitness_por_geracao) :
       hist.globais[g] = hist.melhor_fitness_por_geracao[g]

\* Generation 1 was evaluated with a Candidate that scores less than the
\* best of generation 0, and a child that is not a Candidate of the elite.
C29_Witness ==
  /\ exec.pc = "callback5"
  /\ Len(hist.melhor_fitness_por_geracao) = 2
  /\ \E j \in 1..Len(exec.populacao) :
       Fitness(exec.populacao[j]) < hist.melhor_fitness_por_geracao[1]
  /\ \E j \in 1..Len(exec.populacao) :
       \A i \in 1..Len(exec.melhores) : exec.populacao[j] # exec.melhores[i]

\* C30: with the built-in Catalog every Candidate of every Population has
\* each Session in the room required at its position and at a slot of its
\* preference's list, so no 300 and no 50 is ever subtracted; every score
\* evaluated is at least 200; with generationCount >= 1 the global best is
\* set in generation 0 and the run does not return None.
C30_SemPenalidadeDeSalaOuPreferencia ==
  /\ \A c \in Candidatos :
       LET a == Aulas(c, exec.heap)
       IN /\ \A i \in 1..Len(a) :
               /\ a[i].sala = DISCIPLINAS[i].sala_requerida
               /\ a[i].horario \in SlotsDaPreferencia(a[i].preferencia)
          /\ SalasErradas(a) = { }
          /\ ForaDaPreferencia(a) = { }
          /\ PontuacaoDe(a) >= 200
  /\ \A i \in 1..Len(exec.fitness_populacao) : exec.fitness_populacao[i] >= 200
  /\ Len(hist.globais) >= 1 =>
       (exec.melhor_global # None /\ hist.globais[1] >= 200)
  /\ (exec.pc = "fim" /\ exec.geracoes >= 1) => exec.retorno # None

\* A finished run with a mutation, in whose last evaluation a Candidate
\* scored 200, that returned a Candidate.
C30_Witness ==
  /\ exec.pc = "fim"
  /\ exec.geracoes >= 1
  /\ hist.mutacoes >= 1
  /\ exec.retorno # None
  /\ \E i \in 1..Len(exec.fitness_populacao) : exec.fitness_populacao[i] = 200

====
